---- MODULE Spec2Model ----
(***************************************************************************)
(* Model of potranslator (src/main.py): the placeholder codec              *)
(* (protect_placeholders / restore_placeholders), the translation step     *)
(* (translate_text) and the catalog walker (translate_po).                 *)
(*                                                                         *)
(* Texts are sequences of characters, each character a one-character       *)
(* string; the characters the regex replacement template produces from an  *)
(* escape are named "BEL", "LF", ...                                       *)
(***************************************************************************)
EXTENDS Integers, Sequences, FiniteSets, TLC

VARIABLES
    \* ---- codec run: one call of translate_text on `text`
    text,           \* the argument of translate_text
    cpc,            \* position in translate_text
    safe_text,      \* protect_placeholders' first result
    placeholders,   \* protect_placeholders' second result: the dict, in insertion order
    spans,          \* where in safe_text each generated token starts (ghost)
    mode,           \* what the engine did to the safe text (ghost)
    translation,    \* translation.text
    final,          \* restore_placeholders' result: [err, text]
    \* ---- catalog run: one call of translate_po
    po,             \* the catalog: a sequence of entries
    loaded,         \* the catalog as polib.pofile returned it (ghost)
    idx,            \* the entry the for loop is at
    wpc,            \* position in translate_po
    calls,          \* calls[i]: translator.translate calls made for entry i (ghost)
    outcome,        \* outcome[i]: what the loop did with entry i (ghost)
    visited,        \* the entries visited so far, in order (ghost)
    saves           \* the catalogs po.save wrote, in order

codecVars == <<text, cpc, safe_text, placeholders, spans, mode, translation, final>>
walkVars == <<po, loaded, idx, wpc, calls, outcome, visited, saves>>
vars == <<text, cpc, safe_text, placeholders, spans, mode, translation, final,
          po, loaded, idx, wpc, calls, outcome, visited, saves>>

(***************************************************************************)
(* Bounds.                                                                 *)
(***************************************************************************)
\* A codec input is the concatenation of at most MaxPieces pieces.
MaxPieces == 4
\* A catalog has at most MaxEntries entries.
MaxEntries == 2

(***************************************************************************)
(* Characters and strings.                                                 *)
(***************************************************************************)
BS == "\\"

\* str.lower() of one character (the ASCII letters of the model's alphabet).
Lower(c) ==
    CASE c = "U" -> "u" [] c = "N" -> "n" [] c = "I" -> "i" [] c = "Q" -> "q"
      [] c = "P" -> "p" [] c = "H" -> "h" [] c = "A" -> "a" [] c = "D" -> "d"
      [] c = "S" -> "s" [] OTHER -> c

\* str.upper() of one character.
Upper(c) ==
    CASE c = "u" -> "U" [] c = "n" -> "N" [] c = "i" -> "I" [] c = "q" -> "Q"
      [] c = "p" -> "P" [] c = "h" -> "H" [] c = "a" -> "A" [] c = "d" -> "D"
      [] c = "s" -> "S" [] OTHER -> c

IsLetter(c) == Lower(c) # Upper(c)

IsSpace(c) == c \in {" ", "LF", "TAB"}

RECURSIVE Digits(_)
\* The decimal digits of n, as the f-string formats len(placeholders).
Digits(n) ==
    LET d == <<"0", "1", "2", "3", "4", "5", "6", "7", "8", "9">>
    IN IF n < 10 THEN <<d[n + 1]>> ELSE Digits(n \div 10) \o <<d[(n % 10) + 1]>>

\* f"UNIQ_PH_{n}_UNIQ"
Token(n) ==
    <<"U", "N", "I", "Q", "_", "P", "H", "_">> \o Digits(n) \o <<"_", "U", "N", "I", "Q">>

\* The least j >= from with s[j] = c, or 0.
FirstIndex(s, c, from) ==
    LET hits == {j \in from..Len(s) : s[j] = c}
    IN IF hits = {} THEN 0 ELSE CHOOSE j \in hits : \A k \in hits : j <= k

(***************************************************************************)
(* PLACEHOLDER_PATTERN = (\{[^}]+\}|%\([^)]+\)[sd])                         *)
(***************************************************************************)
\* \{[^}]+\} at position i: the index of the closing brace, or 0.
BraceEnd(s, i) ==
    IF s[i] = "{"
    THEN LET j == FirstIndex(s, "}", i + 1) IN IF j >= i + 2 THEN j ELSE 0
    ELSE 0

\* %\([^)]+\)[sd] at position i: the index of the type code, or 0.
PercentEnd(s, i) ==
    IF s[i] = "%" /\ i + 1 <= Len(s) /\ s[i + 1] = "("
    THEN LET j == FirstIndex(s, ")", i + 2)
         IN IF j >= i + 3 /\ j + 1 <= Len(s) /\ s[j + 1] \in {"s", "d"}
            THEN j + 1 ELSE 0
    ELSE 0

\* The pattern at position i (brace form tried first): the match's last index, or 0.
PLACEHOLDER_PATTERN(s, i) ==
    IF BraceEnd(s, i) # 0 THEN BraceEnd(s, i) ELSE PercentEnd(s, i)

(***************************************************************************)
(* protect_placeholders                                                    *)
(***************************************************************************)
\* placeholders[token] = original on an insertion-ordered dict (a sequence of
\* <<token, original>> pairs): overwrite the key's value, or append.
DictSet(d, token, original) ==
    IF \E k \in 1..Len(d) : d[k][1] = token
    THEN [k \in 1..Len(d) |-> IF d[k][1] = token THEN <<token, original>> ELSE d[k]]
    ELSE Append(d, <<token, original>>)

\* repl(match): the token for this match and the dict after recording it.
repl(d, match) ==
    LET token == Token(Len(d))
    IN [token |-> token, placeholders |-> DictSet(d, token, match)]

RECURSIVE ProtectFrom(_, _, _, _, _)
\* PLACEHOLDER_PATTERN.sub(repl, text) from position i on: out is the text built
\* so far, d the dict, sp the starts of the tokens written to out.
ProtectFrom(s, i, out, d, sp) ==
    IF i > Len(s)
    THEN [safe_text |-> out, placeholders |-> d, spans |-> sp]
    ELSE LET e == PLACEHOLDER_PATTERN(s, i)
         IN IF e = 0
            THEN ProtectFrom(s, i + 1, Append(out, s[i]), d, sp)
            ELSE LET r == repl(d, SubSeq(s, i, e))
                 IN ProtectFrom(s, e + 1, out \o r.token, r.placeholders,
                                Append(sp, Len(out) + 1))

protect_placeholders(s) == ProtectFrom(s, 1, <<>>, <<>>, <<>>)

(***************************************************************************)
(* restore_placeholders                                                    *)
(***************************************************************************)
\* The escapes re's replacement template turns into one character.
TemplateEscape(c) ==
    CASE c = "a" -> "BEL" [] c = "b" -> "BSP" [] c = "f" -> "FF" [] c = "n" -> "LF"
      [] c = "r" -> "CR" [] c = "t" -> "TAB" [] c = "v" -> "VT" [] OTHER -> c

RECURSIVE ExpandFrom(_, _)
\* regex.sub(original, ...) reads `original` as a replacement template, from
\* position i on: [err, text].  A backslash before a letter is an escape (a known
\* one becomes its character, any other raises re.error), before a digit a group
\* reference (the escaped token has no group: re.error; \0 is NUL), before a
\* backslash one backslash, and before anything else both characters stay.
\* (\g<...> and the octal forms \0dd, \ddd need characters no input here has.)
ExpandFrom(s, i) ==
    IF i > Len(s) THEN [err |-> FALSE, text |-> <<>>]
    ELSE IF s[i] # BS
    THEN LET r == ExpandFrom(s, i + 1) IN [err |-> r.err, text |-> <<s[i]>> \o r.text]
    ELSE IF i = Len(s) THEN [err |-> TRUE, text |-> <<>>]
    ELSE LET c == s[i + 1]
             r == ExpandFrom(s, i + 2)
         IN CASE c = BS -> [err |-> r.err, text |-> <<BS>> \o r.text]
              [] c = "0" -> [err |-> r.err, text |-> <<"NUL">> \o r.text]
              [] c \in {"1", "2", "3", "4", "5", "6", "7", "8", "9"} ->
                    [err |-> TRUE, text |-> <<>>]
              [] TemplateEscape(c) # c -> [err |-> r.err, text |-> <<TemplateEscape(c)>> \o r.text]
              [] IsLetter(c) -> [err |-> TRUE, text |-> <<>>]
              [] OTHER -> [err |-> r.err, text |-> <<BS, c>> \o r.text]

ExpandTemplate(original) ==
    LET r == ExpandFrom(original, 1)
    IN IF r.err THEN [err |-> TRUE, text |-> <<>>] ELSE r

\* re.compile(re.escape(token), re.IGNORECASE) at position i of s.
MatchesAt(s, i, token) ==
    /\ i + Len(token) - 1 <= Len(s)
    /\ \A k \in 1..Len(token) : Lower(s[i + k - 1]) = Lower(token[k])

RECURSIVE SubFrom(_, _, _, _)
\* Every leftmost non-overlapping match of token in s, from position i on,
\* replaced by rep.
SubFrom(s, i, token, rep) ==
    IF i > Len(s) THEN <<>>
    ELSE IF MatchesAt(s, i, token) THEN rep \o SubFrom(s, i + Len(token), token, rep)
    ELSE <<s[i]>> \o SubFrom(s, i + 1, token, rep)

\* regex.sub(original, text): the template is compiled first, match or no match.
sub(token, original, s) ==
    LET t == ExpandTemplate(original)
    IN IF t.err THEN [err |-> TRUE, text |-> <<>>]
       ELSE [err |-> FALSE, text |-> SubFrom(s, 1, token, t.text)]

RECURSIVE RestoreInOrder(_, _, _)
\* The loop of restore_placeholders over the dict's items taken in `order`
\* (a sequence of positions of the dict): [err, text].
RestoreInOrder(s, d, order) ==
    IF order = <<>> THEN [err |-> FALSE, text |-> s]
    ELSE LET item == d[Head(order)]
             r == sub(item[1], item[2], s)
         IN IF r.err THEN r ELSE RestoreInOrder(r.text, d, Tail(order))

\* dict.items(): insertion order.
items(d) == [k \in 1..Len(d) |-> k]

restore_placeholders(s, d) == RestoreInOrder(s, d, items(d))

(***************************************************************************)
(* The external engine: translator.translate(safe_text, ...).text.  It     *)
(* may return the safe text as it is, change the letter case of the tokens *)
(* (upper, lower, title), or lose the tokens; or it raises.                *)
(***************************************************************************)
EngineModes == {"echo", "upper", "lower", "title", "drop"}
CaseModes == {"upper", "lower", "title"}

\* The generated token that covers position j of the safe text: its start, or 0.
SpanAt(p, j) ==
    LET hit == {k \in 1..Len(p.spans) :
                   p.spans[k] <= j /\ j < p.spans[k] + Len(p.placeholders[k][1])}
    IN IF hit = {} THEN 0 ELSE p.spans[CHOOSE k \in hit : TRUE]

\* Character j of the safe text after token.upper() / .lower() / .title().
Recase(p, j, m) ==
    LET c == p.safe_text[j]
        st == SpanAt(p, j)
    IN IF st = 0 THEN c
       ELSE CASE m = "upper" -> Upper(c)
              [] m = "lower" -> Lower(c)
              [] m = "title" ->
                    IF j = st \/ ~IsLetter(p.safe_text[j - 1]) THEN Upper(c) ELSE Lower(c)
              [] OTHER -> c

EngineResult(p, m) ==
    IF m \in CaseModes
    THEN [j \in 1..Len(p.safe_text) |-> Recase(p, j, m)]
    ELSE IF m = "drop"
    THEN SelectSeq([j \in 1..Len(p.safe_text) |-> IF SpanAt(p, j) = 0 THEN p.safe_text[j] ELSE "DEL"],
                   LAMBDA c : c # "DEL")
    ELSE p.safe_text

(***************************************************************************)
(* translate_text: restore(engine(protect(text)))                          *)
(***************************************************************************)
\* The result of translate_text when the engine answers in mode m: [err, text].
translate_text(s, m) ==
    LET p == protect_placeholders(s)
    IN restore_placeholders(EngineResult(p, m), p.placeholders)

(***************************************************************************)
(* Codec inputs: concatenations of pieces.                                 *)
(***************************************************************************)
Pieces ==
    { <<"{">>, <<"}">>, <<"d">>, <<BS>>,
      <<"%", "(", "a", ")">>,
      <<"{", "a", "}">>,
      <<"U", "N", "I", "Q", "_", "P", "H", "_", "0", "_">>,
      <<"_", "P", "H", "_", "1", "_", "U", "N", "I", "Q">> }

RECURSIVE TextsOf(_)
TextsOf(n) ==
    IF n = 0 THEN {<<>>}
    ELSE LET prev == TextsOf(n - 1) IN prev \cup {t \o q : t \in prev, q \in Pieces}

Texts == TextsOf(MaxPieces)

NoResult == [err |-> FALSE, text |-> <<>>]

(***************************************************************************)
(* One call of translate_text, step by step.                               *)
(***************************************************************************)
WalkIdle ==
    /\ po = <<>> /\ loaded = <<>> /\ idx = 1 /\ wpc = "idle"
    /\ calls = <<>> /\ outcome = <<>> /\ visited = <<>> /\ saves = <<>>

CodecInit ==
    /\ text \in Texts
    /\ cpc = "protect"
    /\ safe_text = <<>> /\ placeholders = <<>> /\ spans = <<>>
    /\ mode = "none" /\ translation = <<>> /\ final = NoResult
    /\ WalkIdle

\* safe_text, placeholders = protect_placeholders(text)
Protect ==
    /\ cpc = "protect"
    /\ LET p == protect_placeholders(text)
       IN /\ safe_text' = p.safe_text
          /\ placeholders' = p.placeholders
          /\ spans' = p.spans
    /\ cpc' = "translate"
    /\ UNCHANGED <<text, mode, translation, final>>
    /\ UNCHANGED walkVars

\* translation = translator.translate(safe_text, ...); translated_text = translation.text
Translate ==
    /\ cpc = "translate"
    /\ \E m \in EngineModes :
          /\ mode' = m
          /\ translation' = EngineResult([safe_text |-> safe_text,
                                          placeholders |-> placeholders,
                                          spans |-> spans], m)
    /\ cpc' = "restore"
    /\ UNCHANGED <<text, safe_text, placeholders, spans, final>>
    /\ UNCHANGED walkVars

\* translator.translate raises: translate_text propagates it.
TranslateRaises ==
    /\ cpc = "translate"
    /\ mode' = "raise"
    /\ cpc' = "raised"
    /\ final' = [err |-> TRUE, text |-> <<>>]
    /\ UNCHANGED <<text, safe_text, placeholders, spans, translation>>
    /\ UNCHANGED walkVars

\* final_text = restore_placeholders(translated_text, placeholders); return final_text
Restore ==
    /\ cpc = "restore"
    /\ final' = restore_placeholders(translation, placeholders)
    /\ cpc' = IF final'.err THEN "raised" ELSE "returned"
    /\ UNCHANGED <<text, safe_text, placeholders, spans, mode, translation>>
    /\ UNCHANGED walkVars

CodecNext == Protect \/ Translate \/ TranslateRaises \/ Restore

SpecCodec == CodecInit /\ [][CodecNext]_vars

(***************************************************************************)
(* translate_po: the catalog walker.                                       *)
(* An entry is [msgid, msgstr, fuzzy, flags]: the source and target text,  *)
(* the fuzzy attribute and the flags collection.                           *)
(***************************************************************************)
RECURSIVE lstrip(_)
lstrip(s) == IF s # <<>> /\ IsSpace(Head(s)) THEN lstrip(Tail(s)) ELSE s

RECURSIVE rstrip(_)
rstrip(s) ==
    IF s # <<>> /\ IsSpace(s[Len(s)]) THEN rstrip(SubSeq(s, 1, Len(s) - 1)) ELSE s

\* str.strip()
strip(s) == rstrip(lstrip(s))

\* A guard that forgets the target text: every entry with a source is translated.
NeedsTranslation_IgnoresTarget(entry) == entry.msgid # <<>>

\* if entry.msgid and not entry.msgstr.strip()
NeedsTranslation(entry) == entry.msgid # <<>> /\ strip(entry.msgstr) = <<>>

\* A finalisation that resets the attribute and leaves the flags collection alone.
Finalize_KeepsFlagList(entry, translated) ==
    [entry EXCEPT !.msgstr = translated, !.fuzzy = FALSE]

\* A finalisation that only stores the translation.
Finalize_KeepsFuzzy(entry, translated) == [entry EXCEPT !.msgstr = translated]

\* entry.msgstr = translated; entry.fuzzy = False;
\* if 'fuzzy' in entry.flags: entry.flags.remove('fuzzy')
Finalize(entry, translated) ==
    [entry EXCEPT !.msgstr = translated, !.fuzzy = FALSE, !.flags = @ \ {"fuzzy"}]

\* An except branch reached after the entry was already marked final.
OnError_ClearsFuzzy(entry) == [entry EXCEPT !.fuzzy = FALSE, !.flags = @ \ {"fuzzy"}]

\* except Exception as e: print(...): the entry is as it was.
OnError(entry) == entry

\* No except branch: the exception leaves translate_po.
AfterError_Propagates == "aborted"

\* Where translate_po is after the except branch: still in the loop.
AfterError == "walk"

\* Input catalogs.
MsgIds == { <<>>, <<"{", "a", "}">>, <<"{", BS, "d", "}">> }
MsgStrs == { <<>>, <<" ">>, <<"d">> }
FlagSets == SUBSET {"fuzzy", "python-format"}
Entries ==
    { [msgid |-> i, msgstr |-> t, fuzzy |-> ("fuzzy" \in f), flags |-> f] :
        i \in MsgIds, t \in MsgStrs, f \in FlagSets }
Catalogs == UNION { [1..n -> Entries] : n \in 0..MaxEntries }

CodecIdle ==
    /\ text = <<>> /\ cpc = "idle" /\ safe_text = <<>> /\ placeholders = <<>>
    /\ spans = <<>> /\ mode = "none" /\ translation = <<>> /\ final = NoResult

\* po = polib.pofile(input_file); translator = Translator()
WalkInit ==
    /\ po \in Catalogs
    /\ loaded = po
    /\ idx = 1
    /\ wpc = "walk"
    /\ calls = [i \in 1..Len(po) |-> 0]
    /\ outcome = [i \in 1..Len(po) |-> "none"]
    /\ visited = <<>>
    /\ saves = <<>>
    /\ CodecIdle

InLoop == wpc = "walk" /\ idx <= Len(po)

\* The loop's condition is false for the entry: nothing is done with it.
SkipEntry ==
    /\ InLoop
    /\ ~NeedsTranslation(po[idx])
    /\ outcome' = [outcome EXCEPT ![idx] = "skipped"]
    /\ visited' = Append(visited, idx)
    /\ idx' = idx + 1
    /\ UNCHANGED <<po, loaded, wpc, calls, saves>>
    /\ UNCHANGED codecVars

\* translate_text returns: the entry gets the translation and is finalised.
TranslateEntry ==
    /\ InLoop
    /\ NeedsTranslation(po[idx])
    /\ \E m \in EngineModes :
          LET r == translate_text(po[idx].msgid, m)
          IN /\ ~r.err
             /\ po' = [po EXCEPT ![idx] = Finalize(@, r.text)]
    /\ calls' = [calls EXCEPT ![idx] = @ + 1]
    /\ outcome' = [outcome EXCEPT ![idx] = "translated"]
    /\ visited' = Append(visited, idx)
    /\ idx' = idx + 1
    /\ UNCHANGED <<loaded, wpc, saves>>
    /\ UNCHANGED codecVars

\* translator.translate raises inside translate_text: the except branch.
EngineRaises ==
    /\ InLoop
    /\ NeedsTranslation(po[idx])
    /\ po' = [po EXCEPT ![idx] = OnError(@)]
    /\ calls' = [calls EXCEPT ![idx] = @ + 1]
    /\ outcome' = [outcome EXCEPT ![idx] = "failed"]
    /\ visited' = Append(visited, idx)
    /\ idx' = idx + 1
    /\ wpc' = AfterError
    /\ UNCHANGED <<loaded, saves>>
    /\ UNCHANGED codecVars

\* The engine answers and restore_placeholders raises re.error: the except branch.
RestoreRaises ==
    /\ InLoop
    /\ NeedsTranslation(po[idx])
    /\ \E m \in EngineModes : translate_text(po[idx].msgid, m).err
    /\ po' = [po EXCEPT ![idx] = OnError(@)]
    /\ calls' = [calls EXCEPT ![idx] = @ + 1]
    /\ outcome' = [outcome EXCEPT ![idx] = "failed"]
    /\ visited' = Append(visited, idx)
    /\ idx' = idx + 1
    /\ wpc' = AfterError
    /\ UNCHANGED <<loaded, saves>>
    /\ UNCHANGED codecVars

\* po.save(output_file), after the loop; translate_po returns.
Save ==
    /\ wpc = "walk"
    /\ idx > Len(po)
    /\ saves' = Append(saves, po)
    /\ wpc' = "done"
    /\ UNCHANGED <<po, loaded, idx, calls, outcome, visited>>
    /\ UNCHANGED codecVars

WalkNext == SkipEntry \/ TranslateEntry \/ EngineRaises \/ RestoreRaises \/ Save

Spec == WalkInit /\ [][WalkNext]_vars

(***************************************************************************)
(* Properties of the placeholder codec and the translation step            *)
(* (checked under SpecCodec).                                              *)
(***************************************************************************)
CodecDone == cpc \in {"returned", "raised"} /\ mode \in EngineModes

RECURSIVE MatchesFrom(_, _)
\* The matches of PLACEHOLDER_PATTERN in s from position i on, left to right.
MatchesFrom(s, i) ==
    IF i > Len(s) THEN <<>>
    ELSE LET e == PLACEHOLDER_PATTERN(s, i)
         IN IF e = 0 THEN MatchesFrom(s, i + 1)
            ELSE <<SubSeq(s, i, e)>> \o MatchesFrom(s, e + 1)

\* s has t at position i, character for character.
OccursAt(s, i, t) == i + Len(t) - 1 <= Len(s) /\ SubSeq(s, i, i + Len(t) - 1) = t

RECURSIVE ContainsInOrder(_, _, _)
\* The texts of `originals` occur in s from position i on, one after the other.
ContainsInOrder(s, i, originals) ==
    IF originals = <<>> THEN TRUE
    ELSE LET at == {j \in i..Len(s) : OccursAt(s, j, Head(originals))}
         IN IF at = {} THEN FALSE
            ELSE LET j == CHOOSE j \in at : \A k \in at : j <= k
                 IN ContainsInOrder(s, j + Len(Head(originals)), Tail(originals))

\* C1 (round trip): restoring the safe text as protect_placeholders returned it
\* (the engine changes nothing) gives the original text back, without an error.
C1_RoundTrip ==
    (CodecDone /\ mode = "echo") => (~final.err /\ final.text = text)

\* C2 (translation step): whatever text the engine returned, translate_text
\* returns a text that holds every placeholder of the input, verbatim and in the
\* input's order.
C2_PlaceholdersIntact ==
    CodecDone =>
        /\ ~final.err
        /\ ContainsInOrder(final.text, 1, MatchesFrom(text, 1))

\* C8 (case tolerance): with the tokens of the safe text upper-, lower- or
\* title-cased and the rest kept, restore_placeholders still puts the original
\* placeholder where each token stands (so the original text is back), which is
\* also what it gives on the safe text itself.
C8_CaseTolerance ==
    (CodecDone /\ mode \in CaseModes) =>
        /\ ~final.err /\ final.text = text
        /\ final = restore_placeholders(safe_text, placeholders)

\* The numbering half of C9: the dict has one entry per match, its k-th key is
\* UNIQ_PH_<k-1>_UNIQ and stands in the safe text where the k-th match stood, its
\* k-th value is the k-th match, and no two keys are equal.
ProtectNumbering ==
    cpc # "protect" =>
        LET ms == MatchesFrom(text, 1)
        IN /\ Len(placeholders) = Len(ms)
           /\ Len(spans) = Len(ms)
           /\ \A k \in 1..Len(ms) :
                 /\ placeholders[k] = <<Token(k - 1), ms[k]>>
                 /\ OccursAt(safe_text, spans[k], Token(k - 1))
           /\ \A j, k \in 1..Len(placeholders) :
                 j # k => placeholders[j][1] # placeholders[k][1]

\* The text holds the same placeholder text twice.
HasRepeatedPlaceholder ==
    \E j, k \in 1..Len(placeholders) : j # k /\ placeholders[j][2] = placeholders[k][2]

\* C9 (token numbering and uniqueness): the numbering of ProtectNumbering, and a
\* text that holds the same placeholder twice is reconstructed by restore.
C9_NumberingAndRestore ==
    /\ ProtectNumbering
    /\ (CodecDone /\ mode = "echo" /\ HasRepeatedPlaceholder) =>
          (~final.err /\ final.text = text)

\* C10 (order independence): restore_placeholders' result is the result of
\* applying the dict's (token, original) pairs in any other order.
C10_OrderIndependent ==
    CodecDone =>
        \A order \in Permutations(1..Len(placeholders)) :
            RestoreInOrder(translation, placeholders, order) = final

(***************************************************************************)
(* Properties of the catalog walker (checked under Spec).                  *)
(***************************************************************************)
HasFuzzy(entry) == entry.fuzzy \/ "fuzzy" \in entry.flags

\* The entries C4 speaks of: empty source, or a target that is not blank.
SkippedByContract(entry) ==
    entry.msgid = <<>> \/ \E k \in 1..Len(entry.msgstr) : ~IsSpace(entry.msgstr[k])

\* C3 as stated: at the save, no entry with a non-empty msgstr is fuzzy.
C3_NoFuzzyAtSave ==
    wpc = "done" =>
        \A i \in 1..Len(po) : po[i].msgstr # <<>> => ~HasFuzzy(po[i])

\* C3 as amended: at the save, an entry with a non-empty msgstr is fuzzy only
\* if the run left it exactly as it was loaded.
C3_FuzzyOnlyIfUntouched ==
    wpc = "done" =>
        \A i \in 1..Len(po) :
            (po[i].msgstr # <<>> /\ HasFuzzy(po[i])) => po[i] = loaded[i]

\* The run is over, it translated a fuzzy entry, and it left another entry with
\* a target text fuzzy.
C3_Witness ==
    /\ wpc = "done"
    /\ \E i, j \in 1..Len(po) :
          /\ outcome[i] = "translated" /\ HasFuzzy(loaded[i]) /\ po[i].msgstr # <<>>
          /\ po[j].msgstr # <<>> /\ HasFuzzy(po[j])

\* C4 (skipped entries are untouched): at every point of the run an entry with
\* an empty msgid or a non-blank msgstr is as it was loaded, and the engine was
\* not called for it.
C4_SkippedUntouched ==
    \A i \in 1..Len(po) :
        SkippedByContract(loaded[i]) => (po[i] = loaded[i] /\ calls[i] = 0)

\* The run is over; it skipped a fuzzy entry with a target and one with an empty
\* source, or skipped one of them and translated another entry.
C4_Witness ==
    /\ wpc = "done"
    /\ \E i, j \in 1..Len(po) :
          /\ i # j
          /\ SkippedByContract(loaded[i]) /\ HasFuzzy(loaded[i]) /\ loaded[i].msgid # <<>>
          /\ (outcome[j] = "translated" \/ loaded[j].msgid = <<>>)

\* C5 (flag clearing): an entry the run gave a target string has its fuzzy
\* attribute false and no 'fuzzy' among its flags.
C5_FlagCleared ==
    \A i \in 1..Len(po) :
        outcome[i] = "translated" => (~po[i].fuzzy /\ "fuzzy" \notin po[i].flags)

\* A fuzzy entry was translated; its other flag is still there.
C5_Witness ==
    \E i \in 1..Len(po) :
        /\ outcome[i] = "translated"
        /\ loaded[i].fuzzy /\ "fuzzy" \in loaded[i].flags
        /\ "python-format" \in po[i].flags

\* C6 (a failure leaves the entry unchanged): an entry whose translation failed
\* has the msgstr, fuzzy attribute and flags it had, and the engine was called
\* for it once.
C6_FailureLeavesEntry ==
    \A i \in 1..Len(po) :
        outcome[i] = "failed" =>
            /\ po[i].msgstr = loaded[i].msgstr
            /\ po[i].fuzzy = loaded[i].fuzzy
            /\ po[i].flags = loaded[i].flags
            /\ calls[i] = 1

\* The translation of a fuzzy entry failed, and the run went on to the end.
C6_Witness ==
    /\ wpc = "done"
    /\ \E i \in 1..Len(po) : outcome[i] = "failed" /\ HasFuzzy(po[i])

\* C7 (run to completion, one save): the entries are visited in catalog order;
\* nothing is saved while the loop runs; until it has saved, the run has a next
\* step even if the engine fails (each step visits the next entry, or saves);
\* and when it is over every entry was visited and the catalog was saved once,
\* as it then was.
C7_RunToCompletion ==
    /\ visited = [i \in 1..(idx - 1) |-> i]
    /\ wpc \in {"walk", "done"}
    /\ wpc = "walk" => (saves = <<>> /\ ENABLED (SkipEntry \/ EngineRaises \/ Save))
    /\ wpc = "done" => (Len(visited) = Len(po) /\ saves = <<po>>)

\* The run is over after a failed entry was followed by a translated one.
C7_Witness ==
    /\ wpc = "done"
    /\ \E i, j \in 1..Len(po) :
          i < j /\ outcome[i] = "failed" /\ outcome[j] = "translated"

====
